---- MODULE Spec2Model ----
(***************************************************************************)
(* One chat turn of ChatReadRetrieveReadApproach.run                       *)
(* (src/app/backend/approaches/chatreadretrieveread.py) as a state         *)
(* machine: the async generator advances from one network call or yield    *)
(* to the next; `events` is the stream it has emitted, `calls` the calls   *)
(* it has made on its collaborators.                                       *)
(*                                                                         *)
(* A text is a sequence of atoms (characters or literal chunks), so that   *)
(* concatenation is \o and str.strip / str.startswith are computed.        *)
(***************************************************************************)
EXTENDS Integers, Sequences, FiniteSets, TLC

VARIABLES
    model_name,       \* self.model_name, set by __init__
    pc,               \* position of the generator in run
    history,          \* argument of run: sequence of turns
    overrides,        \* argument of run: mapping key -> value
    thought_chain,    \* argument of run: caller-owned mapping
    user_question,    \* local: the (possibly translated) prefixed question
    messages,         \* local: the message list last built
    reform_content,   \* local: chat_completion.choices[0].message.content
    generated_query,  \* local: the search query
    r,                \* local: documents returned by the search
    idx,              \* local: loop index of the citation loop
    results,          \* local: prompt source entries
    citation_lookup,  \* local: "FileX" -> citation entry
    content,          \* local: prompt source block
    system_message,   \* local: composed system message
    pulled,           \* chunks pulled from the streaming completion
    events,           \* the stream emitted so far (one record per yield)
    calls,            \* calls made on the collaborators, in order
    failed,           \* history variable: the stage that failed, or "none"
    streams,          \* the streaming completions opened, each "open" or "exhausted"
    log_level,        \* level of the process-wide logger logging.getLogger("uvicorn")
    cur,              \* the chat turn whose generator frame the variables above hold
    peer,             \* the frame of the other chat turn on the same instance
    use_semantic_reranker,   \* self.use_semantic_reranker, set by __init__
    chunks,           \* the chunks the streaming completion has delivered
    given,            \* history variable: the mappings as the caller passed them
    caller_citation_lookup,  \* the citation_lookup mapping the caller holds
    wpc,              \* position of log_streaming_response, "none" without it
    client,           \* the lines log_streaming_response has yielded
    bot_log           \* number of 'Bot response complete' log records

vars == <<model_name, pc, history, overrides, thought_chain, user_question,
          messages, reform_content, generated_query, r, idx, results,
          citation_lookup, content, system_message, pulled, events, calls,
          failed, streams, log_level, cur, peer, use_semantic_reranker, chunks,
          given, caller_citation_lookup, wpc, client, bot_log>>

\* the caller's side of a call of run, and the wrapper of its stream
caller_vars == <<given, caller_citation_lookup>>
wrapper_vars == <<wpc, client, bot_log>>

----------------------------------------------------------------------------
(* Bounds of the model *)

MaxHistory == 2   \* turns in a history
MaxDocs == 2      \* documents a search returns
MaxChunks == 2    \* chunks a streaming completion delivers

----------------------------------------------------------------------------
(* Mappings (Python dicts) *)

None == "None"
EmptyMap == [k \in {} |-> None]
Has(m, k) == k \in DOMAIN m
Put(m, k, v) == [x \in (DOMAIN m) \cup {k} |-> IF x = k THEN v ELSE m[x]]

RECURSIVE Flatten(_)
Flatten(ss) == IF ss = <<>> THEN <<>> ELSE Head(ss) \o Flatten(Tail(ss))

\* str.startswith on texts
StartsWith(t, p) == Len(t) >= Len(p) /\ SubSeq(t, 1, Len(p)) = p

----------------------------------------------------------------------------
(* Configuration *)

GPT35 == <<"gpt-", "35", "-turbo">>
GPT4 == <<"gpt-", "4">>
ModelNames == { GPT35, GPT35 \o <<"-16k">>, GPT4, <<"gpt-", "3.5", "-turbo">> }

\* core.modelhelper.get_token_limit: the per-model maximum context size
get_token_limit(m) ==
    CASE m = GPT35 \o <<"-16k">> -> 16000
      [] m = GPT4 -> 8100
      [] OTHER -> 4000

chatgpt_token_limit == get_token_limit(model_name)

\* self.target_translation_language and the languages detect may answer
target_translation_language == "en"
Languages == {"en", "es"}

----------------------------------------------------------------------------
(* Texts *)

Whitespace == {" ", "\n"}

RECURSIVE LStrip(_)
LStrip(t) == IF t # <<>> /\ Head(t) \in Whitespace THEN LStrip(Tail(t)) ELSE t

RECURSIVE RStrip(_)
RStrip(t) ==
    IF t # <<>> /\ t[Len(t)] \in Whitespace
    THEN RStrip(SubSeq(t, 1, Len(t) - 1))
    ELSE t

\* str.strip()
Strip(t) == RStrip(LStrip(t))

\* text.nonewlines: newlines flattened to blanks
nonewlines(t) == [i \in DOMAIN t |-> IF t[i] = "\n" THEN " " ELSE t[i]]

\* estimated tokens of one atom: "L" is a long passage, "D" a document chunk
AtomTokens(a) ==
    CASE a = "L" -> 3000
      [] a = "D" -> 700
      [] a = "SYSTEM_MESSAGE_CHAT_CONVERSATION" -> 900
      [] a = "QUERY_PROMPT_TEMPLATE" -> 150
      [] OTHER -> 10

RECURSIVE NumTokens(_)
NumTokens(t) == IF t = <<>> THEN 0 ELSE AtomTokens(Head(t)) + NumTokens(Tail(t))

\* characters of one atom
AtomChars(a) ==
    CASE a = "L" -> 12000
      [] a = "D" -> 2800
      [] a = "Generate search query for: " -> 27
      [] OTHER -> 1

RECURSIVE StrLen(_)
StrLen(t) == IF t = <<>> THEN 0 ELSE AtomChars(Head(t)) + StrLen(Tail(t))

----------------------------------------------------------------------------
(* Prompt messages *)

Msg(role, text) == [role |-> role, content |-> text]

QUERY_PROMPT_FEW_SHOTS ==
    << Msg("user", <<"fq1">>), Msg("assistant", <<"fa1">>),
       Msg("user", <<"fq2">>), Msg("assistant", <<"fa2">>) >>

RESPONSE_PROMPT_FEW_SHOTS ==
    << Msg("user", <<"rq1">>), Msg("assistant", <<"ra1">>),
       Msg("user", <<"rq2">>), Msg("assistant", <<"ra2">>) >>

RECURSIVE MsgTokens(_)
MsgTokens(ms) ==
    IF ms = <<>> THEN 0 ELSE NumTokens(Head(ms).content) + MsgTokens(Tail(ms))

\* the messages of one earlier turn
TurnMsgs(h) ==
    <<Msg("user", h.user)>> \o
    (IF Has(h, "bot") THEN <<Msg("assistant", h.bot)>> ELSE <<>>)

RECURSIVE HistoryMsgs(_)
HistoryMsgs(hs) ==
    IF hs = <<>> THEN <<>> ELSE TurnMsgs(Head(hs)) \o HistoryMsgs(Tail(hs))

\* first retained turn of `prior`: the longest suffix that fits, oldest dropped first
KeepFrom(prior, mandatory, max_tokens) ==
    LET fits(k) == mandatory + MsgTokens(HistoryMsgs(SubSeq(prior, k, Len(prior))))
                     <= max_tokens
        ks == {k \in 1..(Len(prior) + 1) : fits(k)}
    IN  IF ks = {} THEN Len(prior) + 1
        ELSE CHOOSE k \in ks : \A j \in ks : k <= j

\* Approach.get_messages_from_history
get_messages_from_history(system_prompt, model_id, hist, user_conv, few_shots, max_tokens) ==
    LET fixed == <<Msg("system", system_prompt)>> \o few_shots
        active == <<Msg("user", user_conv)>>
        prior == SubSeq(hist, 1, Len(hist) - 1)
        k == KeepFrom(prior, MsgTokens(fixed) + MsgTokens(active), max_tokens)
    IN  fixed \o HistoryMsgs(SubSeq(prior, k, Len(prior))) \o active

----------------------------------------------------------------------------
(* Inputs of run *)

UserTexts == { <<"q">>, <<"L">> }

PriorTurns ==
    { [user |-> <<"p">>, bot |-> <<"a">>],
      [user |-> <<"L">>, bot |-> <<"L">>],
      [user |-> <<"p">>] }

LastTurns == { [user |-> u] : u \in UserTexts }

RECURSIVE Histories(_)
Histories(n) ==
    IF n = 1 THEN { <<t>> : t \in LastTurns }
    ELSE Histories(n - 1) \cup
         { <<p>> \o h : p \in PriorTurns, h \in { x \in Histories(n - 1) : Len(x) = n - 1 } }

ThoughtChains == { EmptyMap, [work_response |-> <<"earlier">>] }

\* what the reformulation model may answer (message.content)
ReformOutputs ==
    { <<>>, <<"0">>, <<" ", "0">>, <<"0", "\n">>, <<"0", "0">>, <<"k", " ", "w">> }

\* documents the search index may return
DocPool ==
    { [content |-> <<"D">>, source |-> "a.pdf", chunk |-> "a-0.json", pages |-> <<3, 4>>],
      [content |-> <<"D", "\n", "x">>, source |-> "b.pdf", chunk |-> "b-7.json", pages |-> <<0>>],
      [content |-> <<"e">>, source |-> "e.pdf", chunk |-> "e-0.json", pages |-> <<>>] }

RECURSIVE DocSeqs(_)
DocSeqs(n) ==
    IF n = 0 THEN { <<>> }
    ELSE DocSeqs(n - 1) \cup
         { Append(ds, d) : ds \in { x \in DocSeqs(n - 1) : Len(x) = n - 1 }, d \in DocPool }

\* deltas a streamed chunk may carry in choices[0].delta.content
Deltas == { [text |-> <<"tok">>], [null |-> TRUE] }

----------------------------------------------------------------------------
(* Stream events and helpers of run *)

ErrorEvent(msg) == [kind |-> "error", error |-> msg]
ContentEvent(c) == [kind |-> "content", content |-> c]
MetadataEvent(term, msgs, tc, cl) ==
    [kind |-> "metadata", data_points |-> EmptyMap, thoughts |-> <<term, msgs>>,
     thought_chain |-> tc, work_citation_lookup |-> cl, web_citation_lookup |-> EmptyMap]

\* user_q = 'Generate search query for: ' + history[-1]["user"]
UserQ(hist) == <<"Generate search query for: ">> \o hist[Len(hist)].user

\* the translation collaborator's answer for a text
Translated(t) == <<"[en]">> \o t

\* top = overrides.get("top") or 3
Top(o) == IF Has(o, "top") /\ o.top # 0 THEN o.top ELSE 3

\* response_length = int(overrides.get("response_length") or 1024)
ResponseLength(o) ==
    IF Has(o, "response_length") /\ o.response_length # 0 THEN o.response_length ELSE 1024

\* float(overrides.get("response_temp")) raises TypeError on None
TemperatureRaises(o) == ~Has(o, "response_temp")

\* float(overrides.get("response_temp")) or 0.6, in tenths
Temperature(o) == IF o.response_temp # 0 THEN o.response_temp ELSE 6

\* SearchQueryFrom comparing the answer itself, not stripped, with "0"
SearchQueryExactSentinel(c, hist) == IF c = <<"0">> THEN hist[Len(hist)].user ELSE c

\* the query after the sentinel fallback
SearchQueryFrom(c, hist) == IF Strip(c) = <<"0">> THEN hist[Len(hist)].user ELSE c

\* search_filter is None, or a filter expression
NoFilter == [none |-> TRUE]
FilterText(t) == [text |-> t]

\* SearchFilter taking "All" for a folder like any other
SearchFilterKeepsAll(o) ==
    LET folder_filter == IF Has(o, "selected_folders") THEN o.selected_folders ELSE ""
        tags_filter == IF Has(o, "selected_tags") THEN o.selected_tags ELSE ""
        has_folder == folder_filter # ""
        folder == <<"search.in(folder, '", folder_filter, "', ',')">>
        tags == <<"tags/any(t: search.in(t, '", tags_filter, "', ','))">>
    IN  IF tags_filter # ""
        THEN IF has_folder THEN FilterText(folder \o <<" and ">> \o tags)
             ELSE FilterText(tags)
        ELSE IF has_folder THEN FilterText(folder) ELSE NoFilter

\* the filter of the search call
SearchFilter(o) ==
    LET folder_filter == IF Has(o, "selected_folders") THEN o.selected_folders ELSE ""
        tags_filter == IF Has(o, "selected_tags") THEN o.selected_tags ELSE ""
        has_folder == folder_filter # "" /\ folder_filter # "All"
        folder == <<"search.in(folder, '", folder_filter, "', ',')">>
        tags == <<"tags/any(t: search.in(t, '", tags_filter, "', ','))">>
    IN  IF tags_filter # ""
        THEN IF has_folder THEN FilterText(folder \o <<" and ">> \o tags)
             ELSE FilterText(tags)
        ELSE IF has_folder THEN FilterText(folder) ELSE NoFilter

\* use_semantic_captions = True if overrides.get("semantic_captions") else False
UseSemanticCaptions(o) == IF Has(o, "semantic_captions") THEN o.semantic_captions ELSE FALSE

\* overrides.get("semantic_ranker")
SemanticRankerAsked(o) == IF Has(o, "semantic_ranker") THEN o.semantic_ranker ELSE FALSE

\* the vector the embedding service answers for a query
EmbeddingOf(q) == <<"embedding of ">> \o q

\* "File{idx}"
Moniker(i) == "File" \o ToString(i)

\* the prompt source entry of the document at rank i
ResultEntry(i, doc) == <<Moniker(i) \o " ", "| ">> \o nonewlines(doc.content)

\* the citation entry of a document
CitationEntry(doc) ==
    [citation |-> doc.chunk, source_path |-> doc.source,
     page_number |-> ToString(doc.pages[1])]

\* Content without the marker for an empty result list
ContentWithoutMarker(res) == <<"\n ">> \o Flatten(res)

\* the prompt source block
Content(res) ==
    LET results_text == Flatten(res)
    IN  IF results_text = <<>> THEN <<"\n NONE">> ELSE <<"\n ">> \o results_text

\* the active user turn with the sources appended
UserWithSources(hist, c) ==
    hist[Len(hist)].user \o <<"Sources:\n">> \o c \o <<"\n\n">>

FollowUp(o) ==
    IF Has(o, "suggest_followup_questions") /\ o.suggest_followup_questions
    THEN <<"FOLLOW_UP_QUESTIONS_PROMPT_CONTENT">> ELSE <<>>

\* SYSTEM_MESSAGE_CHAT_CONVERSATION.format(...) with the slots given: the
\* template down to its last two lines, which are the follow-up slot and the
\* injected_prompt slot, each followed by a line break and the indentation
SystemMessage(o, injected_prompt) ==
    <<"SYSTEM_MESSAGE_CHAT_CONVERSATION">> \o FollowUp(o) \o <<"\n    ">>
        \o injected_prompt \o <<"\n    ">>

ChatCall(msgs, temp, stream) ==
    [svc |-> "chat", messages |-> msgs, temperature |-> temp, stream |-> stream]

\* Fail without the return: the generator goes on where it was
FailWithoutReturn(stage, msg) ==
    /\ events' = Append(events, ErrorEvent(msg))
    /\ failed' = stage
    /\ UNCHANGED pc

Fail(stage, msg) ==
    /\ events' = Append(events, ErrorEvent(msg))
    /\ failed' = stage
    /\ pc' = "done"

\* an exception leaves run uncaught
Raise(stage) ==
    /\ failed' = stage
    /\ pc' = "raised"
    /\ UNCHANGED events

----------------------------------------------------------------------------
(* Generator frames: the arguments, locals and position of one call of run *)

\* levels the server may have started the "uvicorn" logger with
LogLevels == {"INFO", "DEBUG"}

\* the caller's mappings before any call
NothingGiven == [citation_lookup |-> EmptyMap, thought_chain |-> EmptyMap]

\* the frame of a call of run that has not started
NewFrame ==
    [pc |-> "idle", history |-> <<>>, overrides |-> EmptyMap,
     thought_chain |-> EmptyMap, user_question |-> <<>>, messages |-> <<>>,
     reform_content |-> <<>>, generated_query |-> <<>>, r |-> <<>>, idx |-> 0,
     results |-> <<>>, citation_lookup |-> EmptyMap, content |-> <<>>,
     system_message |-> <<>>, pulled |-> 0, events |-> <<>>, calls |-> <<>>,
     failed |-> "none", streams |-> <<>>, chunks |-> <<>>,
     given |-> NothingGiven, caller_citation_lookup |-> EmptyMap]

\* the frame the variables hold
Frame ==
    [pc |-> pc, history |-> history, overrides |-> overrides,
     thought_chain |-> thought_chain, user_question |-> user_question,
     messages |-> messages, reform_content |-> reform_content,
     generated_query |-> generated_query, r |-> r, idx |-> idx,
     results |-> results, citation_lookup |-> citation_lookup,
     content |-> content, system_message |-> system_message, pulled |-> pulled,
     events |-> events, calls |-> calls, failed |-> failed, streams |-> streams,
     chunks |-> chunks, given |-> given,
     caller_citation_lookup |-> caller_citation_lookup]

\* run is resumed only when its consumer asks for the next line: always when
\* the stream is consumed directly, and under log_streaming_response when the
\* wrapper is pulling and has handed on every line emitted so far
Resumed == wpc = "none" \/ (wpc = "pulling" /\ Len(client) = Len(events))

----------------------------------------------------------------------------
(* The state after __init__, before run is called *)

Init ==
    /\ model_name \in ModelNames
    /\ pc = "idle"
    /\ history = <<>>
    /\ overrides = EmptyMap
    /\ thought_chain = EmptyMap
    /\ user_question = <<>>
    /\ messages = <<>>
    /\ reform_content = <<>>
    /\ generated_query = <<>>
    /\ r = <<>>
    /\ idx = 0
    /\ results = <<>>
    /\ citation_lookup = EmptyMap
    /\ content = <<>>
    /\ system_message = <<>>
    /\ pulled = 0
    /\ events = <<>>
    /\ calls = <<>>
    /\ failed = "none"
    /\ streams = <<>>
    /\ log_level \in LogLevels
    /\ cur = 1
    /\ peer = NewFrame
    /\ use_semantic_reranker \in BOOLEAN
    /\ chunks = <<>>
    /\ given = NothingGiven
    /\ caller_citation_lookup = EmptyMap
    /\ wpc = "none"
    /\ client = <<>>
    /\ bot_log = 0

----------------------------------------------------------------------------
(* run, up to the reformulation call *)

\* run is called: the logger is set to DEBUG, the overrides are read,
\* work_query is recorded
Run(H, O, L, T) ==
    /\ pc = "idle"
    /\ Resumed
    /\ log_level' = "DEBUG"
    /\ \E h \in H, o \in O, cl \in L, tc \in T :
          /\ history' = h
          /\ overrides' = o
          /\ citation_lookup' = cl
          /\ caller_citation_lookup' = cl
          /\ given' = [citation_lookup |-> cl, thought_chain |-> tc]
          /\ thought_chain' = Put(tc, "work_query", UserQ(h))
    /\ pc' = "detect"
    /\ UNCHANGED <<streams, cur, peer>>
    /\ UNCHANGED <<use_semantic_reranker, chunks, wrapper_vars>>
    /\ UNCHANGED <<model_name, user_question, messages, reform_content,
                   generated_query, r, idx, results, content,
                   system_message, pulled, events, calls, failed>>

\* detect_language(user_q) answers a language
DetectLanguage ==
    /\ pc = "detect"
    /\ Resumed
    /\ calls' = Append(calls, [svc |-> "detect", text |-> UserQ(history)])
    /\ \E lang \in Languages :
          IF lang # target_translation_language
          THEN pc' = "translate" /\ UNCHANGED user_question
          ELSE pc' = "reformulate" /\ user_question' = UserQ(history)
    /\ UNCHANGED <<streams, log_level, cur, peer>>
    /\ UNCHANGED <<use_semantic_reranker, chunks, caller_vars, wrapper_vars>>
    /\ UNCHANGED <<model_name, history, overrides, thought_chain, messages,
                   reform_content, generated_query, r, idx, results,
                   citation_lookup, content, system_message, pulled, events,
                   failed>>

\* detect_language raises (non-200 or a transport error)
DetectLanguageFails ==
    /\ pc = "detect"
    /\ Resumed
    /\ calls' = Append(calls, [svc |-> "detect", text |-> UserQ(history)])
    /\ Raise("detect")
    /\ UNCHANGED <<streams, log_level, cur, peer>>
    /\ UNCHANGED <<use_semantic_reranker, chunks, caller_vars, wrapper_vars>>
    /\ UNCHANGED <<model_name, history, overrides, thought_chain, user_question,
                   messages, reform_content, generated_query, r, idx, results,
                   citation_lookup, content, system_message, pulled>>

\* translate_response(user_q, target) answers
Translate ==
    /\ pc = "translate"
    /\ Resumed
    /\ calls' = Append(calls, [svc |-> "translate", text |-> UserQ(history)])
    /\ user_question' = Translated(UserQ(history))
    /\ pc' = "reformulate"
    /\ UNCHANGED <<streams, log_level, cur, peer>>
    /\ UNCHANGED <<use_semantic_reranker, chunks, caller_vars, wrapper_vars>>
    /\ UNCHANGED <<model_name, history, overrides, thought_chain, messages,
                   reform_content, generated_query, r, idx, results,
                   citation_lookup, content, system_message, pulled, events,
                   failed>>

\* translate_response raises
TranslateFails ==
    /\ pc = "translate"
    /\ Resumed
    /\ calls' = Append(calls, [svc |-> "translate", text |-> UserQ(history)])
    /\ Raise("translate")
    /\ UNCHANGED <<streams, log_level, cur, peer>>
    /\ UNCHANGED <<use_semantic_reranker, chunks, caller_vars, wrapper_vars>>
    /\ UNCHANGED <<model_name, history, overrides, thought_chain, user_question,
                   messages, reform_content, generated_query, r, idx, results,
                   citation_lookup, content, system_message, pulled>>

\* the budget of the reformulation prompt: the limit less len(user_question)
QueryBudget == chatgpt_token_limit - StrLen(user_question)

\* the messages of the reformulation call
QueryMessages ==
    get_messages_from_history(<<"QUERY_PROMPT_TEMPLATE">>, model_name, history,
        user_question, QUERY_PROMPT_FEW_SHOTS, QueryBudget)

\* the reformulation call answers with a text
Reformulate(C) ==
    /\ pc = "reformulate"
    /\ Resumed
    /\ messages' = QueryMessages
    /\ calls' = Append(calls, ChatCall(QueryMessages, 0, FALSE))
    /\ \E c \in C :
          /\ reform_content' = c
          /\ generated_query' = SearchQueryFrom(c, history)
          /\ thought_chain' =
                Put(thought_chain, "work_search_term", SearchQueryFrom(c, history))
    /\ pc' = "embed"
    /\ UNCHANGED <<streams, log_level, cur, peer>>
    /\ UNCHANGED <<use_semantic_reranker, chunks, caller_vars, wrapper_vars>>
    /\ UNCHANGED <<model_name, history, overrides, user_question, r, idx, results,
                   citation_lookup, content, system_message, pulled, events,
                   failed>>

\* the reformulation call answers with no message content: None.strip() raises
ReformulateNoContent ==
    /\ pc = "reformulate"
    /\ Resumed
    /\ messages' = QueryMessages
    /\ calls' = Append(calls, ChatCall(QueryMessages, 0, FALSE))
    /\ Raise("reformulate_content")
    /\ UNCHANGED <<streams, log_level, cur, peer>>
    /\ UNCHANGED <<use_semantic_reranker, chunks, caller_vars, wrapper_vars>>
    /\ UNCHANGED <<model_name, history, overrides, thought_chain, user_question,
                   reform_content, generated_query, r, idx, results,
                   citation_lookup, content, system_message, pulled>>

\* ReformulateFails without the return: the pipeline goes on to the embedding
ReformulateFailsGoesOn ==
    /\ pc = "reformulate"
    /\ Resumed
    /\ messages' = QueryMessages
    /\ calls' = Append(calls, ChatCall(QueryMessages, 0, FALSE))
    /\ events' = Append(events, ErrorEvent("Error generating optimized keyword search"))
    /\ failed' = "reformulate"
    /\ pc' = "embed"
    /\ UNCHANGED <<streams, log_level, cur, peer>>
    /\ UNCHANGED <<use_semantic_reranker, chunks, caller_vars, wrapper_vars>>
    /\ UNCHANGED <<model_name, history, overrides, thought_chain, user_question,
                   reform_content, generated_query, r, idx, results,
                   citation_lookup, content, system_message, pulled>>

\* the reformulation call raises: one error event, return
ReformulateFails ==
    /\ pc = "reformulate"
    /\ Resumed
    /\ messages' = QueryMessages
    /\ calls' = Append(calls, ChatCall(QueryMessages, 0, FALSE))
    /\ Fail("reformulate", "Error generating optimized keyword search")
    /\ UNCHANGED <<streams, log_level, cur, peer>>
    /\ UNCHANGED <<use_semantic_reranker, chunks, caller_vars, wrapper_vars>>
    /\ UNCHANGED <<model_name, history, overrides, thought_chain, user_question,
                   reform_content, generated_query, r, idx, results,
                   citation_lookup, content, system_message, pulled>>

----------------------------------------------------------------------------
(* Retrieval *)

EmbedCall == [svc |-> "embed", data |-> <<"\"">> \o generated_query \o <<"\"">>]

\* the embedding service answers 200
Embed ==
    /\ pc = "embed"
    /\ Resumed
    /\ calls' = Append(calls, EmbedCall)
    /\ pc' = "search"
    /\ UNCHANGED <<streams, log_level, cur, peer>>
    /\ UNCHANGED <<use_semantic_reranker, chunks, caller_vars, wrapper_vars>>
    /\ UNCHANGED <<model_name, history, overrides, thought_chain, user_question,
                   messages, reform_content, generated_query, r, idx, results,
                   citation_lookup, content, system_message, pulled, events,
                   failed>>

\* EmbedBadStatus without the return: the run goes on to the search
EmbedBadStatusGoesOn ==
    /\ pc = "embed"
    /\ Resumed
    /\ calls' = Append(calls, EmbedCall)
    /\ events' = Append(events, ErrorEvent("Error generating embedding"))
    /\ failed' = "embed"
    /\ pc' = "search"
    /\ UNCHANGED <<streams, log_level, cur, peer>>
    /\ UNCHANGED <<use_semantic_reranker, chunks, caller_vars, wrapper_vars>>
    /\ UNCHANGED <<model_name, history, overrides, thought_chain, user_question,
                   messages, reform_content, generated_query, r, idx, results,
                   citation_lookup, content, system_message, pulled>>

\* the embedding service answers another status: one error event, return
EmbedBadStatus ==
    /\ pc = "embed"
    /\ Resumed
    /\ calls' = Append(calls, EmbedCall)
    /\ Fail("embed", "Error generating embedding")
    /\ UNCHANGED <<streams, log_level, cur, peer>>
    /\ UNCHANGED <<use_semantic_reranker, chunks, caller_vars, wrapper_vars>>
    /\ UNCHANGED <<model_name, history, overrides, thought_chain, user_question,
                   messages, reform_content, generated_query, r, idx, results,
                   citation_lookup, content, system_message, pulled>>

\* requests.post raises (timeout): one error event, return
EmbedRaises ==
    /\ pc = "embed"
    /\ Resumed
    /\ calls' = Append(calls, EmbedCall)
    /\ Fail("embed", "Error generating embedding: e")
    /\ UNCHANGED <<streams, log_level, cur, peer>>
    /\ UNCHANGED <<use_semantic_reranker, chunks, caller_vars, wrapper_vars>>
    /\ UNCHANGED <<model_name, history, overrides, thought_chain, user_question,
                   messages, reform_content, generated_query, r, idx, results,
                   citation_lookup, content, system_message, pulled>>

\* SearchCall asking for the semantic reranker whatever the server flag
SearchCallIgnoresServerFlag ==
    LET semantic == SemanticRankerAsked(overrides)
    IN  [svc |-> "search", search_text |-> generated_query, top |-> Top(overrides),
         filter |-> SearchFilter(overrides),
         vector |-> EmbeddingOf(generated_query),
         k_nearest_neighbors |-> Top(overrides),
         query_type |-> IF semantic THEN "semantic" ELSE "simple",
         query_caption |->
            IF semantic /\ UseSemanticCaptions(overrides)
            THEN "extractive|highlight-false" ELSE None]

\* the search call: hybrid, with the semantic reranker when the server flag
\* and the override are set
SearchCall ==
    LET semantic == use_semantic_reranker /\ SemanticRankerAsked(overrides)
    IN  [svc |-> "search", search_text |-> generated_query, top |-> Top(overrides),
         filter |-> SearchFilter(overrides),
         vector |-> EmbeddingOf(generated_query),
         k_nearest_neighbors |-> Top(overrides),
         query_type |-> IF semantic THEN "semantic" ELSE "simple",
         query_caption |->
            IF semantic /\ UseSemanticCaptions(overrides)
            THEN "extractive|highlight-false" ELSE None]

\* Search without the rebinding of citation_lookup to a new mapping
SearchKeepsLookup(D) ==
    /\ pc = "search"
    /\ Resumed
    /\ calls' = Append(calls, SearchCall)
    /\ \E ds \in D : r' = ds
    /\ results' = <<>>
    /\ idx' = 0
    /\ pc' = "assemble"
    /\ UNCHANGED <<streams, log_level, cur, peer>>
    /\ UNCHANGED <<use_semantic_reranker, chunks, caller_vars, wrapper_vars>>
    /\ UNCHANGED <<model_name, history, overrides, thought_chain, user_question,
                   messages, reform_content, generated_query, citation_lookup,
                   content, system_message, pulled, events, failed>>

\* the search answers with its ranked documents; the citation tables are reset
Search(D) ==
    /\ pc = "search"
    /\ Resumed
    /\ calls' = Append(calls, SearchCall)
    /\ \E ds \in D : r' = ds
    /\ citation_lookup' = EmptyMap
    /\ results' = <<>>
    /\ idx' = 0
    /\ pc' = "assemble"
    /\ UNCHANGED <<streams, log_level, cur, peer>>
    /\ UNCHANGED <<use_semantic_reranker, chunks, caller_vars, wrapper_vars>>
    /\ UNCHANGED <<model_name, history, overrides, thought_chain, user_question,
                   messages, reform_content, generated_query, content,
                   system_message, pulled, events, failed>>

\* the search raises
SearchFails ==
    /\ pc = "search"
    /\ Resumed
    /\ calls' = Append(calls, SearchCall)
    /\ Raise("search")
    /\ UNCHANGED <<streams, log_level, cur, peer>>
    /\ UNCHANGED <<use_semantic_reranker, chunks, caller_vars, wrapper_vars>>
    /\ UNCHANGED <<model_name, history, overrides, thought_chain, user_question,
                   messages, reform_content, generated_query, r, idx, results,
                   citation_lookup, content, system_message, pulled>>

----------------------------------------------------------------------------
(* Citation assembly: one iteration of `for idx, doc in enumerate(r)` *)

\* AssembleStep numbering the monikers from 1
AssembleStepFromOne ==
    /\ pc = "assemble"
    /\ Resumed
    /\ idx < Len(r)
    /\ r[idx + 1].pages # <<>>
    /\ results' = Append(results, ResultEntry(idx + 1, r[idx + 1]))
    /\ citation_lookup' =
          Put(citation_lookup, Moniker(idx + 1), CitationEntry(r[idx + 1]))
    /\ idx' = idx + 1
    /\ UNCHANGED <<streams, log_level, cur, peer>>
    /\ UNCHANGED <<use_semantic_reranker, chunks, caller_vars, wrapper_vars>>
    /\ UNCHANGED <<model_name, pc, history, overrides, thought_chain,
                   user_question, messages, reform_content, generated_query, r,
                   content, system_message, pulled, events, calls, failed>>

AssembleStep ==
    /\ pc = "assemble"
    /\ Resumed
    /\ idx < Len(r)
    /\ r[idx + 1].pages # <<>>
    /\ results' = Append(results, ResultEntry(idx, r[idx + 1]))
    /\ citation_lookup' = Put(citation_lookup, Moniker(idx), CitationEntry(r[idx + 1]))
    /\ idx' = idx + 1
    /\ UNCHANGED <<streams, log_level, cur, peer>>
    /\ UNCHANGED <<use_semantic_reranker, chunks, caller_vars, wrapper_vars>>
    /\ UNCHANGED <<model_name, pc, history, overrides, thought_chain,
                   user_question, messages, reform_content, generated_query, r,
                   content, system_message, pulled, events, calls, failed>>

\* doc[self.page_number_field][0] on an empty sequence raises IndexError
AssembleRaises ==
    /\ pc = "assemble"
    /\ Resumed
    /\ idx < Len(r)
    /\ r[idx + 1].pages = <<>>
    /\ results' = Append(results, ResultEntry(idx, r[idx + 1]))
    /\ Raise("assemble")
    /\ UNCHANGED <<streams, log_level, cur, peer>>
    /\ UNCHANGED <<use_semantic_reranker, chunks, caller_vars, wrapper_vars>>
    /\ UNCHANGED <<model_name, history, overrides, thought_chain, user_question,
                   messages, reform_content, generated_query, r, idx,
                   citation_lookup, content, system_message, pulled, calls>>

----------------------------------------------------------------------------
(* Prompt composition *)

PromptOverridePresent(o) == Has(o, "prompt_template")

\* prompt_override.startswith(">>>")
PromptOverrideInjects(o) ==
    IF Has(o, "prompt_template")
    THEN StartsWith(o.prompt_template, <<">", ">", ">">>)
    ELSE FALSE

\* Compose splicing the whole override, marker included
ComposeKeepsMarker ==
    /\ pc = "assemble"
    /\ Resumed
    /\ idx = Len(r)
    /\ ~PromptOverridePresent(overrides) \/ PromptOverrideInjects(overrides)
    /\ content' = Content(results)
    /\ system_message' =
          IF ~PromptOverridePresent(overrides)
          THEN SystemMessage(overrides, <<>>)
          ELSE SystemMessage(overrides, overrides.prompt_template \o <<"\n ">>)
    /\ pc' = "generate"
    /\ UNCHANGED <<streams, log_level, cur, peer>>
    /\ UNCHANGED <<use_semantic_reranker, chunks, caller_vars, wrapper_vars>>
    /\ UNCHANGED <<model_name, history, overrides, thought_chain, user_question,
                   messages, reform_content, generated_query, r, idx, results,
                   citation_lookup, pulled, events, calls, failed>>

\* the source block and the system message, default or with an injected prompt
Compose ==
    /\ pc = "assemble"
    /\ Resumed
    /\ idx = Len(r)
    /\ ~PromptOverridePresent(overrides) \/ PromptOverrideInjects(overrides)
    /\ content' = Content(results)
    /\ system_message' =
          IF ~PromptOverridePresent(overrides)
          THEN SystemMessage(overrides, <<>>)
          ELSE SystemMessage(overrides,
                   SubSeq(overrides.prompt_template, 4, Len(overrides.prompt_template))
                   \o <<"\n ">>)
    /\ pc' = "generate"
    /\ UNCHANGED <<streams, log_level, cur, peer>>
    /\ UNCHANGED <<use_semantic_reranker, chunks, caller_vars, wrapper_vars>>
    /\ UNCHANGED <<model_name, history, overrides, thought_chain, user_question,
                   messages, reform_content, generated_query, r, idx, results,
                   citation_lookup, pulled, events, calls, failed>>

\* a prompt_template without the marker: format() lacks injected_prompt, KeyError
ComposeRaises ==
    /\ pc = "assemble"
    /\ Resumed
    /\ idx = Len(r)
    /\ PromptOverridePresent(overrides)
    /\ ~PromptOverrideInjects(overrides)
    /\ content' = Content(results)
    /\ Raise("compose")
    /\ UNCHANGED <<streams, log_level, cur, peer>>
    /\ UNCHANGED <<use_semantic_reranker, chunks, caller_vars, wrapper_vars>>
    /\ UNCHANGED <<model_name, history, overrides, thought_chain, user_question,
                   messages, reform_content, generated_query, r, idx, results,
                   citation_lookup, system_message, pulled, calls>>

----------------------------------------------------------------------------
(* The final generation, inside the try block *)

\* max_tokens handed to get_messages_from_history in the answer branches
AnswerBudget(m) ==
    IF StartsWith(m, GPT35) THEN get_token_limit(m) - 500 ELSE get_token_limit(m)

\* AnswerMessages with the source block in the system message
AnswerMessagesSourcesInSystem ==
    get_messages_from_history(system_message \o <<"Sources:\n">> \o content,
        model_name, history, history[Len(history)].user,
        RESPONSE_PROMPT_FEW_SHOTS, AnswerBudget(model_name))

\* the answer prompt of the gpt-35-turbo and gpt-4 branches
AnswerMessages ==
    get_messages_from_history(system_message, model_name, history,
        UserWithSources(history, content), RESPONSE_PROMPT_FEW_SHOTS,
        AnswerBudget(model_name))

\* gpt-35-turbo branch: the answer prompt is built and a streaming call is issued
GenerateBranch35 ==
    /\ pc = "generate"
    /\ Resumed
    /\ StartsWith(model_name, GPT35)
    /\ ~TemperatureRaises(overrides)
    /\ messages' = AnswerMessages
    /\ calls' = Append(calls, ChatCall(AnswerMessages, Temperature(overrides), TRUE))
    /\ streams' = Append(streams, "open")
    /\ pc' = "generate_final"
    /\ UNCHANGED <<log_level, cur, peer>>
    /\ UNCHANGED <<use_semantic_reranker, chunks, caller_vars, wrapper_vars>>
    /\ UNCHANGED <<model_name, history, overrides, thought_chain, user_question,
                   reform_content, generated_query, r, idx, results,
                   citation_lookup, content, system_message, pulled, events,
                   failed>>

\* gpt-35-turbo branch: the streaming call raises
GenerateBranch35Fails ==
    /\ pc = "generate"
    /\ Resumed
    /\ StartsWith(model_name, GPT35)
    /\ ~TemperatureRaises(overrides)
    /\ messages' = AnswerMessages
    /\ calls' = Append(calls, ChatCall(AnswerMessages, Temperature(overrides), TRUE))
    /\ Fail("generate", "Error generating chat completion")
    /\ UNCHANGED <<streams, log_level, cur, peer>>
    /\ UNCHANGED <<use_semantic_reranker, chunks, caller_vars, wrapper_vars>>
    /\ UNCHANGED <<model_name, history, overrides, thought_chain, user_question,
                   reform_content, generated_query, r, idx, results,
                   citation_lookup, content, system_message, pulled>>

\* gpt-35-turbo branch: float(None) raises before the call is made
GenerateBranch35NoTemp ==
    /\ pc = "generate"
    /\ Resumed
    /\ StartsWith(model_name, GPT35)
    /\ TemperatureRaises(overrides)
    /\ messages' = AnswerMessages
    /\ Fail("temperature", "Error generating chat completion")
    /\ UNCHANGED <<streams, log_level, cur, peer>>
    /\ UNCHANGED <<use_semantic_reranker, chunks, caller_vars, wrapper_vars>>
    /\ UNCHANGED <<model_name, history, overrides, thought_chain, user_question,
                   reform_content, generated_query, r, idx, results,
                   citation_lookup, content, system_message, pulled, calls>>

\* GenerateBranch4 appending the sources to the last turn of history in place
GenerateBranch4WritesHistory ==
    /\ pc = "generate"
    /\ Resumed
    /\ ~StartsWith(model_name, GPT35)
    /\ StartsWith(model_name, GPT4)
    /\ messages' = AnswerMessages
    /\ history' = [history EXCEPT ![Len(history)].user =
                                      UserWithSources(history, content)]
    /\ pc' = "generate_final"
    /\ UNCHANGED <<streams, log_level, cur, peer>>
    /\ UNCHANGED <<use_semantic_reranker, chunks, caller_vars, wrapper_vars>>
    /\ UNCHANGED <<model_name, overrides, thought_chain, user_question,
                   reform_content, generated_query, r, idx, results,
                   citation_lookup, content, system_message, pulled, events,
                   calls, failed>>

\* gpt-4 branch: the answer prompt is built
GenerateBranch4 ==
    /\ pc = "generate"
    /\ Resumed
    /\ ~StartsWith(model_name, GPT35)
    /\ StartsWith(model_name, GPT4)
    /\ messages' = AnswerMessages
    /\ pc' = "generate_final"
    /\ UNCHANGED <<streams, log_level, cur, peer>>
    /\ UNCHANGED <<use_semantic_reranker, chunks, caller_vars, wrapper_vars>>
    /\ UNCHANGED <<model_name, history, overrides, thought_chain, user_question,
                   reform_content, generated_query, r, idx, results,
                   citation_lookup, content, system_message, pulled, events,
                   calls, failed>>

\* any other model name: no branch is taken, messages is left as it was
GenerateNoBranch ==
    /\ pc = "generate"
    /\ Resumed
    /\ ~StartsWith(model_name, GPT35)
    /\ ~StartsWith(model_name, GPT4)
    /\ pc' = "generate_final"
    /\ UNCHANGED <<streams, log_level, cur, peer>>
    /\ UNCHANGED <<use_semantic_reranker, chunks, caller_vars, wrapper_vars>>
    /\ UNCHANGED <<model_name, history, overrides, thought_chain, user_question,
                   messages, reform_content, generated_query, r, idx, results,
                   citation_lookup, content, system_message, pulled, events,
                   calls, failed>>

\* the unconditional streaming call after the branches
GenerateFinal ==
    /\ pc = "generate_final"
    /\ Resumed
    /\ ~TemperatureRaises(overrides)
    /\ calls' = Append(calls, ChatCall(messages, Temperature(overrides), TRUE))
    /\ streams' = Append(streams, "open")
    /\ pc' = "meta"
    /\ UNCHANGED <<log_level, cur, peer>>
    /\ UNCHANGED <<use_semantic_reranker, chunks, caller_vars, wrapper_vars>>
    /\ UNCHANGED <<model_name, history, overrides, thought_chain, user_question,
                   messages, reform_content, generated_query, r, idx, results,
                   citation_lookup, content, system_message, pulled, events,
                   failed>>

\* the unconditional streaming call raises
GenerateFinalFails ==
    /\ pc = "generate_final"
    /\ Resumed
    /\ ~TemperatureRaises(overrides)
    /\ calls' = Append(calls, ChatCall(messages, Temperature(overrides), TRUE))
    /\ Fail("generate", "Error generating chat completion")
    /\ UNCHANGED <<streams, log_level, cur, peer>>
    /\ UNCHANGED <<use_semantic_reranker, chunks, caller_vars, wrapper_vars>>
    /\ UNCHANGED <<model_name, history, overrides, thought_chain, user_question,
                   messages, reform_content, generated_query, r, idx, results,
                   citation_lookup, content, system_message, pulled>>

\* float(None) raises before the unconditional call is made
GenerateFinalNoTemp ==
    /\ pc = "generate_final"
    /\ Resumed
    /\ TemperatureRaises(overrides)
    /\ Fail("temperature", "Error generating chat completion")
    /\ UNCHANGED <<streams, log_level, cur, peer>>
    /\ UNCHANGED <<use_semantic_reranker, chunks, caller_vars, wrapper_vars>>
    /\ UNCHANGED <<model_name, history, overrides, thought_chain, user_question,
                   messages, reform_content, generated_query, r, idx, results,
                   citation_lookup, content, system_message, pulled, calls>>

----------------------------------------------------------------------------
(* The emitted stream *)

\* EmitMetadata that yields only when there are citations
EmitMetadataIfCited ==
    /\ pc = "meta"
    /\ Resumed
    /\ events' = IF citation_lookup = EmptyMap THEN events
                  ELSE Append(events, MetadataEvent(generated_query, messages,
                                                    thought_chain, citation_lookup))
    /\ pc' = "stream"
    /\ UNCHANGED <<streams, log_level, cur, peer>>
    /\ UNCHANGED <<use_semantic_reranker, chunks, caller_vars, wrapper_vars>>
    /\ UNCHANGED <<model_name, history, overrides, thought_chain, user_question,
                   messages, reform_content, generated_query, r, idx, results,
                   citation_lookup, content, system_message, pulled, calls,
                   failed>>

\* yield of the metadata line
EmitMetadata ==
    /\ pc = "meta"
    /\ Resumed
    /\ events' = Append(events,
          MetadataEvent(generated_query, messages, thought_chain, citation_lookup))
    /\ pc' = "stream"
    /\ UNCHANGED <<streams, log_level, cur, peer>>
    /\ UNCHANGED <<use_semantic_reranker, chunks, caller_vars, wrapper_vars>>
    /\ UNCHANGED <<model_name, history, overrides, thought_chain, user_question,
                   messages, reform_content, generated_query, r, idx, results,
                   citation_lookup, content, system_message, pulled, calls,
                   failed>>

\* a chunk with at least one choice: one content line
StreamChunk ==
    /\ pc = "stream"
    /\ Resumed
    /\ pulled < MaxChunks
    /\ pulled' = pulled + 1
    /\ \E d \in Deltas :
          /\ chunks' = Append(chunks, [choices |-> <<d>>])
          /\ events' = Append(events, ContentEvent(d))
    /\ UNCHANGED <<streams, log_level, cur, peer>>
    /\ UNCHANGED <<use_semantic_reranker, caller_vars, wrapper_vars>>
    /\ UNCHANGED <<model_name, pc, history, overrides, thought_chain,
                   user_question, messages, reform_content, generated_query, r,
                   idx, results, citation_lookup, content, system_message, calls,
                   failed>>

\* StreamEmptyChunk emitting a content line with a null fragment
StreamEmptyChunkEmits ==
    /\ pc = "stream"
    /\ Resumed
    /\ pulled < MaxChunks
    /\ pulled' = pulled + 1
    /\ chunks' = Append(chunks, [choices |-> <<>>])
    /\ events' = Append(events, ContentEvent([null |-> TRUE]))
    /\ UNCHANGED <<streams, log_level, cur, peer>>
    /\ UNCHANGED <<use_semantic_reranker, caller_vars, wrapper_vars>>
    /\ UNCHANGED <<model_name, pc, history, overrides, thought_chain,
                   user_question, messages, reform_content, generated_query, r,
                   idx, results, citation_lookup, content, system_message,
                   calls, failed>>

\* a chunk with no choices: nothing is emitted
StreamEmptyChunk ==
    /\ pc = "stream"
    /\ Resumed
    /\ pulled < MaxChunks
    /\ pulled' = pulled + 1
    /\ chunks' = Append(chunks, [choices |-> <<>>])
    /\ UNCHANGED <<streams, log_level, cur, peer>>
    /\ UNCHANGED <<use_semantic_reranker, caller_vars, wrapper_vars>>
    /\ UNCHANGED <<model_name, pc, history, overrides, thought_chain,
                   user_question, messages, reform_content, generated_query, r,
                   idx, results, citation_lookup, content, system_message, events,
                   calls, failed>>

\* the completion stream ends: the stream iterated is exhausted, the
\* generator finishes
StreamEnd ==
    /\ pc = "stream"
    /\ Resumed
    /\ streams' = [streams EXCEPT ![Len(streams)] = "exhausted"]
    /\ pc' = "done"
    /\ UNCHANGED <<log_level, cur, peer>>
    /\ UNCHANGED <<use_semantic_reranker, chunks, caller_vars, wrapper_vars>>
    /\ UNCHANGED <<model_name, history, overrides, thought_chain, user_question,
                   messages, reform_content, generated_query, r, idx, results,
                   citation_lookup, content, system_message, pulled, events,
                   calls, failed>>

\* StreamFails without the error line: the stream just stops
StreamFailsSilently ==
    /\ pc = "stream"
    /\ Resumed
    /\ failed' = "stream"
    /\ pc' = "done"
    /\ UNCHANGED <<streams, log_level, cur, peer>>
    /\ UNCHANGED <<use_semantic_reranker, chunks, caller_vars, wrapper_vars>>
    /\ UNCHANGED <<model_name, history, overrides, thought_chain, user_question,
                   messages, reform_content, generated_query, r, idx, results,
                   citation_lookup, content, system_message, pulled, events,
                   calls>>

\* the completion stream raises: one error line, return
StreamFails ==
    /\ pc = "stream"
    /\ Resumed
    /\ Fail("stream", "Error generating chat completion")
    /\ UNCHANGED <<streams, log_level, cur, peer>>
    /\ UNCHANGED <<use_semantic_reranker, chunks, caller_vars, wrapper_vars>>
    /\ UNCHANGED <<model_name, history, overrides, thought_chain, user_question,
                   messages, reform_content, generated_query, r, idx, results,
                   citation_lookup, content, system_message, pulled, calls>>

----------------------------------------------------------------------------

\* chat (app.py) passes a new empty mapping as citation_lookup
NoCitationLookup == { EmptyMap }

\* the inputs and answers the whole pipeline is explored with
PipelineHistories ==
    { <<[user |-> <<"q">>]>>, <<[user |-> <<"p">>, bot |-> <<"a">>], [user |-> <<"q">>]>> }

\* response_temp is in tenths (7 is 0.7)
PipelineOverrides ==
    { [top |-> 3],
      [top |-> 3, response_temp |-> 7],
      [response_temp |-> 0, prompt_template |-> <<"custom">>],
      [response_temp |-> 3, response_length |-> 2048,
       suggest_followup_questions |-> TRUE,
       prompt_template |-> <<">", ">", ">", "inj">>] }

PipelineReformOutputs == { <<"0">>, <<"k", " ", "w">> }

PipelineDocs ==
    { ds \in DocSeqs(2) : Len(ds) # 1 /\ (Len(ds) = 2 => ds[1].source = "a.pdf" /\ ds[2].source # "a.pdf") }

Next ==
    \/ Run(PipelineHistories, PipelineOverrides, NoCitationLookup, ThoughtChains)
    \/ DetectLanguage \/ DetectLanguageFails
    \/ Translate \/ TranslateFails
    \/ Reformulate(PipelineReformOutputs) \/ ReformulateNoContent \/ ReformulateFails
    \/ Embed \/ EmbedBadStatus \/ EmbedRaises
    \/ Search(PipelineDocs) \/ SearchFails
    \/ AssembleStep \/ AssembleRaises
    \/ Compose \/ ComposeRaises
    \/ GenerateBranch35 \/ GenerateBranch35Fails \/ GenerateBranch35NoTemp
    \/ GenerateBranch4 \/ GenerateNoBranch
    \/ GenerateFinal \/ GenerateFinalFails \/ GenerateFinalNoTemp
    \/ EmitMetadata
    \/ StreamChunk \/ StreamEmptyChunk \/ StreamEnd \/ StreamFails

Spec == Init /\ [][Next]_vars

----------------------------------------------------------------------------
(* Properties of the emitted stream *)

Kinds(k) == { i \in DOMAIN events : events[i].kind = k }
CallsTo(svc) == { i \in DOMAIN calls : calls[i].svc = svc }
LastUser == history[Len(history)].user

\* C1: in every run the stream holds at most one metadata event, which
\* precedes every content event, and at most one error event, which is the
\* last event of the stream.
C1_StreamOrder ==
    /\ Cardinality(Kinds("metadata")) <= 1
    /\ \A j \in Kinds("content") : \E i \in Kinds("metadata") : i < j
    /\ Cardinality(Kinds("error")) <= 1
    /\ \A i \in Kinds("error") : i = Len(events)

\* a finished run whose stream is metadata, content, ..., error
C1_Witness ==
    /\ pc = "done"
    /\ Resumed
    /\ Len(events) >= 3
    /\ events[1].kind = "metadata"
    /\ events[2].kind = "content"
    /\ events[Len(events)].kind = "error"

\* C2: no exception escapes run: whichever stage fails, the run ends with
\* exactly one error event, the last of the stream, and finishes normally.
C2_NoExceptionEscapes ==
    /\ pc # "raised"
    /\ failed # "none" =>
          /\ pc = "done"
          /\ Cardinality(Kinds("error")) = 1
          /\ events[Len(events)].kind = "error"

\* C3: when the reformulation call fails the stream is exactly one error
\* event, the call was made once, and no embedding, search or later
\* generation call is made.
C3_ReformulationFailure ==
    failed = "reformulate" =>
        /\ pc = "done"
        /\ Len(events) = 1
        /\ events[1].kind = "error"
        /\ Cardinality(CallsTo("chat")) = 1
        /\ CallsTo("embed") = {}
        /\ CallsTo("search") = {}

C3_Witness ==
    /\ failed = "reformulate"
    /\ pc = "done"
    /\ events = <<ErrorEvent("Error generating optimized keyword search")>>

\* the failures that run reports before the metadata event is emitted
PreMetadataFailures == {"reformulate", "embed", "temperature", "generate"}

\* C4 as stated: the first event is the metadata event unless an error
\* occurred before any network call was made (no call besides a failing one
\* is in the call log).
C4_FirstEventUnlessNoNetworkCall ==
    events # <<>> =>
        \/ events[1].kind = "metadata"
        \/ events[1].kind = "error" /\ Len(calls) <= 1

\* C4 as amended: the first event is the metadata event or an error event;
\* an error event is first exactly when the reformulation call, the embedding
\* fetch or the final generation failed before the metadata event was
\* emitted, which is after network calls were made, and it is then the only
\* event.
C4_FirstEvent ==
    /\ failed \in PreMetadataFailures => events # <<>>
    /\ events # <<>> =>
          /\ events[1].kind \in {"metadata", "error"}
          /\ events[1].kind = "error" <=> failed \in PreMetadataFailures
          /\ events[1].kind = "error" =>
                /\ Len(events) = 1
                /\ CallsTo("detect") # {}
                /\ CallsTo("chat") # {}

\* an error event is the first event after the language, reformulation and
\* embedding calls were made
C4_Witness ==
    /\ events # <<>>
    /\ events[1].kind = "error"
    /\ failed = "embed"
    /\ Len(calls) = 3

\* the collaborator failures
CollaboratorFailures ==
    {"detect", "translate", "reformulate", "reformulate_content", "embed",
     "search", "generate", "stream"}

\* C5: a one-turn history, overrides {top: 3}, every collaborator succeeding
\* and a search without documents give one metadata event with an empty
\* citation lookup followed only by content events, and no error event.
C5_ZeroDocumentsScenario ==
    ( /\ pc = "done"
      /\ Len(history) = 1
      /\ overrides = [top |-> 3]
      /\ failed \notin CollaboratorFailures
      /\ CallsTo("search") # {}
      /\ r = <<>> )
    =>
    ( /\ events # <<>>
      /\ events[1].kind = "metadata"
      /\ events[1].work_citation_lookup = EmptyMap
      /\ \A i \in 2..Len(events) : events[i].kind = "content" )

\* the source block has been computed
ContentComputed ==
    \/ pc \in {"generate", "generate_final", "meta", "stream"}
    \/ pc = "done" /\ CallsTo("search") # {}
    \/ pc = "raised" /\ failed = "compose"

\* C9: when the search returns no documents the source block is the NONE
\* marker, never the empty string, and the citation lookup, also the one the
\* metadata event carries, is empty.
C9_NoDocuments ==
    (ContentComputed /\ r = <<>>) =>
        /\ content = <<"\n NONE">>
        /\ content # <<>>
        /\ citation_lookup = EmptyMap
        /\ \A i \in Kinds("metadata") : events[i].work_citation_lookup = EmptyMap

\* a run without documents has emitted its metadata event
C9_Witness ==
    /\ r = <<>>
    /\ pc = "stream"
    /\ content = <<"\n NONE">>
    /\ Kinds("metadata") # {}

\* the system message has been composed
SystemMessageComposed ==
    \/ pc \in {"generate", "generate_final", "meta", "stream"}
    \/ pc = "done" /\ CallsTo("search") # {}

\* C12: when overrides.prompt_template is present and does not start with
\* ">>>", composing the system message does not fail, the system message
\* begins with the override text in place of the default template, and the
\* run proceeds to the final generation.
C12_FullOverride ==
    ( /\ ContentComputed
      /\ PromptOverridePresent(overrides)
      /\ ~PromptOverrideInjects(overrides) )
    =>
    ( /\ failed # "compose"
      /\ pc # "raised"
      /\ StartsWith(system_message, overrides.prompt_template)
      /\ \A i \in DOMAIN system_message :
            system_message[i] # "SYSTEM_MESSAGE_CHAT_CONVERSATION" )

\* the override text without its first three characters
InjectedText(o) == SubSeq(o.prompt_template, 4, Len(o.prompt_template))

\* C13 as stated: with an override that starts with ">>>" the system message
\* is the default template with exactly the override text minus its first
\* three characters in the injected_prompt slot.
C13_InjectedRemainderOnly ==
    (SystemMessageComposed /\ PromptOverrideInjects(overrides)) =>
        system_message =
            <<"SYSTEM_MESSAGE_CHAT_CONVERSATION">> \o FollowUp(overrides)
            \o <<"\n    ">> \o InjectedText(overrides) \o <<"\n    ">>

\* C13 as amended: with an override that starts with ">>>" the
\* injected_prompt slot of the default template holds the override text
\* minus its first three characters followed by a line break and a blank;
\* the marker itself is not in the slot, and the rest of the system message
\* is the default template as composed when no override is given, follow-up
\* slot included.
C13_InjectedPrompt ==
    /\ (SystemMessageComposed /\ PromptOverrideInjects(overrides)) =>
          system_message =
              <<"SYSTEM_MESSAGE_CHAT_CONVERSATION">> \o FollowUp(overrides)
              \o <<"\n    ">> \o InjectedText(overrides) \o <<"\n ">>
              \o <<"\n    ">>
    /\ (SystemMessageComposed /\ ~PromptOverridePresent(overrides)) =>
          system_message =
              <<"SYSTEM_MESSAGE_CHAT_CONVERSATION">> \o FollowUp(overrides)
              \o <<"\n    ", "\n    ">>

\* a system message was composed with an injected prompt and the follow-up
\* questions prompt
C13_Witness ==
    /\ pc = "generate"
    /\ Resumed
    /\ PromptOverrideInjects(overrides)
    /\ \E i \in DOMAIN system_message : system_message[i] = "inj"
    /\ \E i \in DOMAIN system_message :
          system_message[i] = "FOLLOW_UP_QUESTIONS_PROMPT_CONTENT"

\* the streaming generation calls of the run
StreamingCalls == { i \in DOMAIN calls : calls[i].svc = "chat" /\ calls[i].stream }

\* C14: in every run, whatever the model family, the streaming generation
\* call is issued at most once.
C14_SingleIssuance == Cardinality(StreamingCalls) <= 1

\* C15: when the embedding fetch fails (another status than 200, or an
\* exception) the stream is exactly one error event, the run is over, the
\* fetch was made once, and neither the search nor the final generation is
\* ever called.
C15_EmbeddingFailure ==
    failed = "embed" =>
        /\ pc = "done"
        /\ Len(events) = 1
        /\ events[1].kind = "error"
        /\ Cardinality(CallsTo("embed")) = 1
        /\ CallsTo("search") = {}
        /\ StreamingCalls = {}

\* the embedding fetch raised and the run ended with its error event
C15_Witness ==
    /\ failed = "embed"
    /\ pc = "done"
    /\ events = <<ErrorEvent("Error generating embedding: e")>>
    /\ Cardinality(CallsTo("embed")) = 1

\* C16: when the generation collaborator fails after the metadata event and
\* k >= 0 content events, the stream is the metadata event, those content
\* events, no more of them than chunks were pulled, and one error event at
\* the end; a finished run whose completion stream was not read to its end
\* ends with an error event.
C16_StreamFailure ==
    /\ failed = "stream" =>
          /\ pc = "done"
          /\ Len(events) >= 2
          /\ events[1].kind = "metadata"
          /\ \A i \in 2..(Len(events) - 1) : events[i].kind = "content"
          /\ events[Len(events)].kind = "error"
          /\ Cardinality(Kinds("error")) = 1
          /\ Cardinality(Kinds("content")) <= pulled
    /\ (pc = "done" /\ Kinds("metadata") # {}
          /\ streams[Len(streams)] = "open") =>
            events[Len(events)].kind = "error"

\* the completion stream failed after one content event
C16_Witness ==
    /\ failed = "stream"
    /\ pc = "done"
    /\ Len(events) = 3
    /\ events[2].kind = "content"
    /\ pulled = 1

\* C17: run never mutates the history it is given: from the call of run on,
\* whether the run succeeds, reports an error or raises, no step changes the
\* history sequence or any of its turns.
C17_HistoryUnchanged == [][pc # "idle" => history' = history]_vars

\* a run on a two-turn history went through the gpt-4 branch and finished
C17_Witness ==
    /\ pc = "done"
    /\ Resumed
    /\ failed = "none"
    /\ Len(history) = 2
    /\ StartsWith(model_name, GPT4)
    /\ Kinds("content") # {}

\* C20: a missing override key behaves as its default: without response_temp
\* the streaming generation calls carry temperature 0.6 (6 tenths), without
\* top the search asks for 3 results, without response_length 1024 is used,
\* and the missing key never ends the run with an error event.
C20_MissingKeysDefault ==
    /\ ~Has(overrides, "response_temp") =>
          /\ failed # "temperature"
          /\ \A i \in StreamingCalls : calls[i].temperature = 6
    /\ ~Has(overrides, "top") => \A i \in CallsTo("search") : calls[i].top = 3
    /\ ~Has(overrides, "response_length") => ResponseLength(overrides) = 1024

----------------------------------------------------------------------------
(* Query reformulation: the run up to the search call, with every answer of  *)
(* the reformulation model and every history                                 *)

QueryHistories == Histories(MaxHistory)
QueryOverrides == { [top |-> 3] }
NoThoughtChain == { EmptyMap }

NextQuery ==
    \/ Run(QueryHistories, QueryOverrides, NoCitationLookup, NoThoughtChain)
    \/ DetectLanguage \/ DetectLanguageFails
    \/ Translate \/ TranslateFails
    \/ Reformulate(ReformOutputs) \/ ReformulateNoContent \/ ReformulateFails
    \/ Embed \/ EmbedBadStatus \/ EmbedRaises

SpecQuery == Init /\ [][NextQuery]_vars

\* the reformulation call has answered with a text and the query is set
QueryProduced ==
    \/ pc \in {"embed", "search", "assemble", "generate", "generate_final", "meta", "stream"}
    \/ pc \in {"done", "raised"} /\ failed \notin {"detect", "translate", "reformulate", "reformulate_content"}

\* an answer that is "0" with blanks or newlines around it
IsSentinel(c) ==
    \E i \in DOMAIN c :
        /\ c[i] = "0"
        /\ \A j \in DOMAIN c : j # i => c[j] \in {" ", "\n"}

\* C6 as stated: the fallback to the latest user message applies when the
\* answer is exactly "0"; any other answer is itself the search query.
C6_ExactSentinel ==
    QueryProduced =>
        IF reform_content = <<"0">>
        THEN generated_query = LastUser /\ thought_chain.work_search_term = LastUser
        ELSE generated_query = reform_content

\* C6 as amended: the fallback applies when the answer is "0" once leading and
\* trailing whitespace is removed; the query (and work_search_term) is then
\* the latest user message verbatim, without the prefix and untranslated; any
\* other text answer is itself, unstripped, the query.
C6_StrippedSentinel ==
    QueryProduced =>
        /\ thought_chain.work_search_term = generated_query
        /\ IF IsSentinel(reform_content)
           THEN /\ generated_query = LastUser
                /\ generated_query # UserQ(history)
                /\ generated_query # user_question
           ELSE generated_query = reform_content

\* the model answered " 0" and the query is the user message
C6_Witness ==
    /\ pc = "embed"
    /\ Resumed
    /\ reform_content = <<" ", "0">>
    /\ generated_query = LastUser

\* C7: whenever the last turn's user text is non-empty and the reformulation
\* call succeeds, the search query passed on to embedding and search is a
\* non-empty string.
C7_NonEmptyQuery ==
    (QueryProduced /\ LastUser # <<>>) => generated_query # <<>>

\* the reformulation prompt has been assembled with QueryBudget
QueryPromptAssembled == CallsTo("chat") # {}

\* C11: the token budget handed to the assembly of the reformulation prompt,
\* the model's maximum context size less the length of the user question, is
\* positive in every run that assembles the prompt and sends it: a question
\* at least as long as the maximum context size is reported as an error and
\* the run does not go on with a zero or negative budget.
C11_PositiveBudget == QueryPromptAssembled => QueryBudget > 0

\* C21: language detection and translation are applied to the reformulated
\* query: the language calls come after the reformulation call, the text
\* they are given is the search query, and when the detected language is
\* not the target language the text sent to embedding and search is the
\* translation.
C21_StageOrder ==
    /\ \A i \in CallsTo("detect") \cup CallsTo("translate") :
          /\ \E j \in CallsTo("chat") : j < i
          /\ calls[i].text = generated_query
    /\ \A i \in CallsTo("search") :
          CallsTo("translate") # {} =>
              \E j \in CallsTo("translate") :
                  calls[i].search_text = Translated(calls[j].text)

----------------------------------------------------------------------------
(* Citation assembly: the run up to the composed prompt, with every sequence *)
(* of documents the search may return                                        *)

AllDocSeqs == DocSeqs(MaxDocs)

NextAssemble ==
    \/ Run(PipelineHistories, PipelineOverrides, NoCitationLookup, NoThoughtChain)
    \/ DetectLanguage \/ Translate
    \/ Reformulate(PipelineReformOutputs)
    \/ Embed
    \/ Search(AllDocSeqs)
    \/ AssembleStep \/ AssembleRaises
    \/ Compose \/ ComposeRaises

SpecAssemble == Init /\ [][NextAssemble]_vars

\* the source entries of the documents ds, in order, ranks counted from i
RECURSIVE RankedBlock(_, _)
RankedBlock(ds, i) ==
    IF ds = <<>> THEN <<>>
    ELSE <<"File" \o ToString(i) \o " ", "| ">> \o nonewlines(Head(ds).content)
         \o RankedBlock(Tail(ds), i + 1)

\* C8: after idx documents the citation lookup has exactly the keys
\* File0..File{idx-1}, one per document, the entry of File{i} is the one of
\* the document at rank i, and the source entries are in rank order; when the
\* assembly is complete that is File0..File{len(r)-1}, len(citation_lookup) =
\* len(r), and the source block lists the documents in the search's order.
C8_Monikers ==
    CallsTo("search") # {} /\ failed # "search" =>
        /\ DOMAIN citation_lookup = { "File" \o ToString(i) : i \in 0..(idx - 1) }
        /\ Cardinality(DOMAIN citation_lookup) = idx
        /\ \A i \in 0..(idx - 1) :
              citation_lookup["File" \o ToString(i)].source_path = r[i + 1].source
        /\ Flatten(SubSeq(results, 1, idx)) = RankedBlock(SubSeq(r, 1, idx), 0)
        /\ ContentComputed =>
              /\ idx = Len(r)
              /\ Cardinality(DOMAIN citation_lookup) = Len(r)
              /\ r # <<>> => content = <<"\n ">> \o RankedBlock(r, 0)

\* two different documents were assembled
C8_Witness ==
    /\ pc = "generate"
    /\ Resumed
    /\ Len(r) = 2
    /\ r[1] # r[2]
    /\ DOMAIN citation_lookup = {"File0", "File1"}

----------------------------------------------------------------------------
(* Prompt composition: the run up to the final generation call, with every   *)
(* history                                                                   *)

\* the histories whose active question is short, so that system message,
\* few-shots, active turn and reserved response always fit the context
ShortQuestionHistories ==
    { h \in Histories(MaxHistory) : h[Len(h)].user = <<"q">> }

ComposeOverrides ==
    { [response_temp |-> 7], [response_temp |-> 7, response_length |-> 2048] }

NextCompose ==
    \/ Run(ShortQuestionHistories, ComposeOverrides, NoCitationLookup, NoThoughtChain)
    \/ DetectLanguage \/ Translate
    \/ Reformulate(PipelineReformOutputs)
    \/ Embed
    \/ Search(PipelineDocs)
    \/ AssembleStep \/ AssembleRaises
    \/ Compose
    \/ GenerateBranch35 \/ GenerateBranch4 \/ GenerateNoBranch
    \/ GenerateFinal

SpecCompose == Init /\ [][NextCompose]_vars

\* the answer prompt has been composed by one of the two model branches
AnswerPromptComposed ==
    /\ pc \in {"generate_final", "meta"}
    /\ StartsWith(model_name, GPT35) \/ StartsWith(model_name, GPT4)

IsSuffix(a, b) == Len(a) <= Len(b) /\ SubSeq(b, Len(b) - Len(a) + 1, Len(b)) = a

\* C10: for the prompt composed in the gpt-35-turbo and the gpt-4 branch,
\* the estimated tokens of system message, few-shots and retained history
\* plus the reserved response length are at most the model's maximum context
\* size; the retained history is a suffix of the earlier turns (oldest
\* dropped first), and the few-shot examples and the active user turn are in
\* the prompt.
C10_TokenBudget ==
    AnswerPromptComposed =>
        /\ MsgTokens(messages) + ResponseLength(overrides)
              <= get_token_limit(model_name)
        /\ SubSeq(messages, 2, 5) = RESPONSE_PROMPT_FEW_SHOTS
        /\ messages[Len(messages)] =
              Msg("user", UserWithSources(history, content))
        /\ IsSuffix(SubSeq(messages, 6, Len(messages) - 1),
                    HistoryMsgs(SubSeq(history, 1, Len(history) - 1)))

----------------------------------------------------------------------------
(* Two chat turns on the same approach instance: chat (app.py) calls impl.run *)
(* for each request on the one instance held in chat_approaches, and the     *)
(* event loop runs one generator at a time, changing over where the running  *)
(* one awaits or yields                                                      *)

\* the running generator is not started, over, or stands at an await or a
\* yield: the reformulation call, the streaming calls, an emitted line
AtSuspension ==
    \/ pc \in {"idle", "reformulate", "generate_final", "stream", "done", "raised"}
    \/ pc = "generate" /\ StartsWith(model_name, GPT35)

\* the event loop leaves the running generator and resumes the other one
Switch ==
    /\ AtSuspension
    /\ peer.pc \notin {"done", "raised"}
    /\ cur' = 3 - cur
    /\ peer' = Frame
    /\ pc' = peer.pc
    /\ history' = peer.history
    /\ overrides' = peer.overrides
    /\ thought_chain' = peer.thought_chain
    /\ user_question' = peer.user_question
    /\ messages' = peer.messages
    /\ reform_content' = peer.reform_content
    /\ generated_query' = peer.generated_query
    /\ r' = peer.r
    /\ idx' = peer.idx
    /\ results' = peer.results
    /\ citation_lookup' = peer.citation_lookup
    /\ content' = peer.content
    /\ system_message' = peer.system_message
    /\ pulled' = peer.pulled
    /\ events' = peer.events
    /\ calls' = peer.calls
    /\ failed' = peer.failed
    /\ streams' = peer.streams
    /\ chunks' = peer.chunks
    /\ given' = peer.given
    /\ caller_citation_lookup' = peer.caller_citation_lookup
    /\ UNCHANGED <<model_name, log_level, use_semantic_reranker, wrapper_vars>>

\* the requests the two turns are explored with
TurnHistories == { <<[user |-> <<"q">>]>>, <<[user |-> <<"L">>]>> }
TurnOverrides == { [response_temp |-> 7], [top |-> 3] }
TurnReformOutputs == { <<"0">>, <<"k">> }
TurnDocs == { ds \in DocSeqs(1) : \A i \in DOMAIN ds : ds[i].source = "a.pdf" }

NextConcurrent ==
    \/ Run(TurnHistories, TurnOverrides, NoCitationLookup, NoThoughtChain)
    \/ DetectLanguage
    \/ Reformulate(TurnReformOutputs) \/ ReformulateFails
    \/ Embed
    \/ Search(TurnDocs)
    \/ AssembleStep
    \/ Compose
    \/ GenerateBranch35 \/ GenerateBranch4 \/ GenerateNoBranch
    \/ GenerateBranch35NoTemp
    \/ GenerateFinal \/ GenerateFinalNoTemp
    \/ EmitMetadata
    \/ StreamChunk \/ StreamEnd \/ StreamFails
    \/ Switch

SpecConcurrent == Init /\ [][NextConcurrent]_vars

\* a step of one turn leaves the frame of the other turn as it is, and a
\* change-over exchanges the two frames unchanged
FramesIndependent ==
    /\ cur' = cur => peer' = peer
    /\ cur' # cur => (peer' = Frame /\ Frame' = peer)

\* the two turns never share a stream, a query, a citation lookup or a
\* thought chain
TurnsIndependent == [][FramesIndependent]_vars

\* C18: under every interleaving of two turns on one instance, a step of one
\* turn changes nothing of the other turn (its stream, search query, citation
\* lookup and thought chain stay what it produced alone), and the state both
\* turns touch, the configuration and the process-wide logger, is never
\* written after initialization.
C18_IndependentTurnsReadOnlyShared ==
    [][ /\ FramesIndependent
        /\ model_name' = model_name
        /\ log_level' = log_level ]_vars

----------------------------------------------------------------------------
(* The consumer of the stream: log_streaming_response (app.py) pulls one     *)
(* line at a time for the StreamingResponse; when the client disconnects the *)
(* generator is closed where it stands, at a yield                           *)

\* the consumer stops after an emitted line: GeneratorExit is raised at the
\* yield, which `except Exception` does not catch and no finally clause
\* follows, so run ends there and closes nothing itself; the completion it
\* was iterating is left to the finalization of the abandoned iterator,
\* which may or may not release it
Disconnect ==
    /\ pc = "stream"
    /\ events # <<>>
    /\ pc' = "closed"
    /\ \E st \in {"open", "released"} :
          streams' = [streams EXCEPT ![Len(streams)] = st]
    /\ UNCHANGED <<log_level, cur, peer>>
    /\ UNCHANGED <<use_semantic_reranker, chunks, caller_vars, wrapper_vars>>
    /\ UNCHANGED <<model_name, history, overrides, thought_chain, user_question,
                   messages, reform_content, generated_query, r, idx, results,
                   citation_lookup, content, system_message, pulled, events,
                   calls, failed>>

StreamOverrides == { [response_temp |-> 7] }

NextStream ==
    \/ Run(PipelineHistories, StreamOverrides, NoCitationLookup, NoThoughtChain)
    \/ DetectLanguage \/ Translate
    \/ Reformulate(PipelineReformOutputs)
    \/ Embed
    \/ Search(PipelineDocs)
    \/ AssembleStep \/ AssembleRaises
    \/ Compose
    \/ GenerateBranch35 \/ GenerateBranch35Fails
    \/ GenerateBranch4 \/ GenerateNoBranch
    \/ GenerateFinal \/ GenerateFinalFails
    \/ EmitMetadata
    \/ StreamChunk \/ StreamEmptyChunk \/ StreamEnd \/ StreamFails
    \/ Disconnect

SpecStream == Init /\ [][NextStream]_vars

\* C19: once the caller has stopped consuming the stream, no further chunk
\* is pulled from the generation collaborator and no further call is made,
\* and every generation stream opened during the run has been released.
C19_Cancellation ==
    /\ [](pc = "closed" => \A i \in DOMAIN streams : streams[i] # "open")
    /\ [][pc = "closed" => (pulled' = pulled /\ calls' = calls)]_vars

----------------------------------------------------------------------------
(* Retrieval: the run up to the search call, with every combination of the   *)
(* overrides the search call depends on                                      *)

\* an override that is absent (<<>>) or present with a value (<<v>>)
PutOpt(m, k, opt) == IF opt = <<>> THEN m ELSE Put(m, k, opt[1])

FolderChoices == { <<>>, <<"">>, <<"All">>, <<"f1,f2">> }
TagChoices == { <<>>, <<"">>, <<"t1">> }
FlagChoices == { <<>>, <<TRUE>>, <<FALSE>> }
TopChoices == { <<>>, <<5>> }

RetrieveOverrides ==
    { PutOpt(PutOpt(PutOpt(PutOpt(PutOpt(EmptyMap,
          "selected_folders", f), "selected_tags", t), "semantic_ranker", sr),
          "semantic_captions", sc), "top", k) :
      f \in FolderChoices, t \in TagChoices, sr \in FlagChoices,
      sc \in FlagChoices, k \in TopChoices }

RetrieveHistories == { <<[user |-> <<"q">>]>> }

NextRetrieve ==
    \/ Run(RetrieveHistories, RetrieveOverrides, NoCitationLookup, NoThoughtChain)
    \/ DetectLanguage \/ Translate
    \/ Reformulate(PipelineReformOutputs)
    \/ Embed \/ EmbedBadStatus
    \/ Search(PipelineDocs) \/ SearchFails

SpecRetrieve == Init /\ [][NextRetrieve]_vars

\* the folder and tag overrides as run reads them
FolderGiven == IF Has(overrides, "selected_folders") THEN overrides.selected_folders ELSE ""
TagsGiven == IF Has(overrides, "selected_tags") THEN overrides.selected_tags ELSE ""

\* C22: the filter of every search call has a folder predicate iff
\* selected_folders is non-empty and not "All", a tag predicate iff
\* selected_tags is non-empty, the two joined with " and ", folder first, when
\* both are there, and is no filter (None) when neither is.
C22_SearchFilter ==
    \A i \in CallsTo("search") :
        LET folder == FolderGiven # "" /\ FolderGiven # "All"
            tags == TagsGiven # ""
        IN  calls[i].filter =
              CASE folder /\ tags ->
                     [text |-> <<"search.in(folder, '", FolderGiven, "', ',')",
                                 " and ",
                                 "tags/any(t: search.in(t, '", TagsGiven, "', ','))">>]
                [] folder /\ ~tags ->
                     [text |-> <<"search.in(folder, '", FolderGiven, "', ',')">>]
                [] ~folder /\ tags ->
                     [text |-> <<"tags/any(t: search.in(t, '", TagsGiven, "', ','))">>]
                [] OTHER -> [none |-> TRUE]

\* a search was issued with both predicates
C22_Witness ==
    /\ pc = "assemble"
    /\ FolderGiven = "f1,f2"
    /\ TagsGiven = "t1"
    /\ \E i \in CallsTo("search") : Len(calls[i].filter.text) = 7

\* the search call asks for the semantic reranker
Semantic(call) == call.query_type = "semantic"

\* the search call asks for extractive captions
Captions(call) == call.query_caption = "extractive|highlight-false"

\* the search call carries the keyword text, the vector, top and the filter
CarriesQuery(call) ==
    /\ call.search_text = generated_query
    /\ call.vector = EmbeddingOf(generated_query)
    /\ call.top = Top(overrides)
    /\ call.k_nearest_neighbors = Top(overrides)
    /\ call.filter = SearchFilter(overrides)

\* C23 as stated: the search call asks for semantic reranking with extractive
\* captions iff the server flag and the semantic_ranker override are both
\* true, and is a plain hybrid search otherwise; either way it carries the
\* keyword text, the vector, top and the filter.
C23_SemanticWithCaptions ==
    \A i \in CallsTo("search") :
        /\ (Semantic(calls[i]) /\ Captions(calls[i]))
              <=> (use_semantic_reranker /\ SemanticRankerAsked(overrides))
        /\ ~(use_semantic_reranker /\ SemanticRankerAsked(overrides))
              => (~Semantic(calls[i]) /\ ~Captions(calls[i]))
        /\ CarriesQuery(calls[i])

\* C23 amended: the search call asks for semantic reranking iff the server
\* flag and the semantic_ranker override are both true; it asks for
\* extractive captions iff, in addition, the semantic_captions override is
\* true; either way it carries the keyword text, the vector, top and the
\* filter.
C23_SemanticIffBoth ==
    \A i \in CallsTo("search") :
        /\ Semantic(calls[i])
              <=> (use_semantic_reranker /\ SemanticRankerAsked(overrides))
        /\ Captions(calls[i])
              <=> (/\ use_semantic_reranker
                   /\ SemanticRankerAsked(overrides)
                   /\ UseSemanticCaptions(overrides))
        /\ ~Captions(calls[i]) => calls[i].query_caption = None
        /\ CarriesQuery(calls[i])

\* a semantic search was issued without captions
C23_Witness ==
    /\ pc = "assemble"
    /\ use_semantic_reranker
    /\ SemanticRankerAsked(overrides)
    /\ ~UseSemanticCaptions(overrides)
    /\ \E i \in CallsTo("search") : Semantic(calls[i]) /\ ~Captions(calls[i])

----------------------------------------------------------------------------
(* Placement of the sources in the answer prompt *)

\* the texts of the source entries
SourceAtoms == { Flatten(results)[k] : k \in DOMAIN Flatten(results) }

\* the configured model is of the gpt-35-turbo or the gpt-4 family
KnownFamily == StartsWith(model_name, GPT35) \/ StartsWith(model_name, GPT4)

\* C24: for a model name of the gpt-35-turbo or gpt-4 family, the last message
\* of every streaming generation call is the user turn history[-1].user +
\* "Sources:" + source block; the system message comes first, holds no source
\* text, and is what the overrides alone determine, whether or not documents
\* were retrieved.
C24_SourcesInUserTurn ==
    KnownFamily =>
        \A i \in StreamingCalls :
            LET m == calls[i].messages
            IN  /\ m[Len(m)] =
                      [role |-> "user",
                       content |-> LastUser \o <<"Sources:\n">> \o content \o <<"\n\n">>]
                /\ m[1].role = "system"
                /\ \A k \in DOMAIN m[1].content :
                      /\ m[1].content[k] \notin SourceAtoms
                      /\ m[1].content[k] # "Sources:\n"
                /\ m[1].content =
                      <<"SYSTEM_MESSAGE_CHAT_CONVERSATION">> \o FollowUp(overrides)
                      \o <<"\n    ">>
                      \o (IF PromptOverridePresent(overrides)
                          THEN InjectedText(overrides) \o <<"\n ">> ELSE <<>>)
                      \o <<"\n    ">>

\* a gpt-4 answer was asked for with two retrieved documents in the user turn
C24_Witness ==
    /\ pc = "meta"
    /\ StartsWith(model_name, GPT4)
    /\ Len(r) = 2
    /\ \E i \in StreamingCalls :
          LET m == calls[i].messages
          IN  \E k \in DOMAIN m[Len(m)].content : m[Len(m)].content[k] = "File1 "

----------------------------------------------------------------------------
(* Content events against the chunks delivered *)

\* the content lines the loop over the completion stream yields for chunks
RECURSIVE EventsOf(_)
EventsOf(cs) ==
    IF cs = <<>> THEN <<>>
    ELSE IF Len(Head(cs).choices) > 0
         THEN <<ContentEvent(Head(cs).choices[1])>> \o EventsOf(Tail(cs))
         ELSE EventsOf(Tail(cs))

IsContent(e) == e.kind = "content"

\* the fragment of a delta as the client reads it (null for no content)
FragmentText(d) == IF Has(d, "text") THEN d.text ELSE <<"null">>

RECURSIVE ConcatFragments(_)
ConcatFragments(es) ==
    IF es = <<>> THEN <<>>
    ELSE FragmentText(Head(es).content) \o ConcatFragments(Tail(es))

RECURSIVE ConcatDeltas(_)
ConcatDeltas(cs) ==
    IF cs = <<>> THEN <<>>
    ELSE (IF Len(Head(cs).choices) > 0 THEN FragmentText(Head(cs).choices[1])
          ELSE <<>>) \o ConcatDeltas(Tail(cs))

\* C25: the content events all come after the metadata event and are, in
\* order, one per delivered chunk that carries a choice, each with that
\* chunk's fragment alone; a chunk with no choices gives no event; the
\* fragments concatenated are the delivered deltas concatenated.
C25_ContentPerChunk ==
    /\ \A i \in Kinds("content") : \E j \in Kinds("metadata") : j < i
    /\ Len(SelectSeq(events, IsContent))
          = Cardinality({ k \in DOMAIN chunks : Len(chunks[k].choices) > 0 })
    /\ SelectSeq(events, IsContent) = EventsOf(chunks)
    /\ ConcatFragments(SelectSeq(events, IsContent)) = ConcatDeltas(chunks)

\* a chunk without choices was followed by a chunk with a fragment
C25_Witness ==
    /\ pc = "done"
    /\ Len(chunks) = 2
    /\ chunks[1].choices = <<>>
    /\ Len(chunks[2].choices) = 1
    /\ Cardinality(Kinds("content")) = 1
    /\ events[Len(events)] = ContentEvent([text |-> <<"tok">>])

----------------------------------------------------------------------------
(* Page numbers of the citation entries *)

\* C26: every retrieved document taken into the citation lookup has as
\* page_number the first entry of its page-number sequence as a string, or
\* "0" when the sequence is empty, and an empty sequence does not fail the
\* run.
C26_PageNumberDefault ==
    /\ failed # "assemble"
    /\ \A i \in 1..Len(r) :
          (pc \in {"generate", "generate_final", "meta", "stream", "done"}
              /\ CallsTo("search") # {}) =>
             /\ Has(citation_lookup, Moniker(i - 1))
             /\ citation_lookup[Moniker(i - 1)].page_number =
                   IF r[i].pages = <<>> THEN "0" ELSE ToString(r[i].pages[1])

----------------------------------------------------------------------------
(* The citation lookup of one run against the mapping the caller passes *)

StaleEntry == [citation |-> "old-0.json", source_path |-> "old.pdf", page_number |-> "9"]

\* citation_lookup arguments: the empty mapping chat passes, and a mapping
\* with entries of an earlier turn
StaleLookups == { EmptyMap, [File0 |-> StaleEntry, File5 |-> StaleEntry] }

LookupHistories == { <<[user |-> <<"q">>]>> }
LookupOverrides == { [response_temp |-> 7] }

NextLookup ==
    \/ Run(LookupHistories, LookupOverrides, StaleLookups, NoThoughtChain)
    \/ DetectLanguage \/ Translate
    \/ Reformulate(PipelineReformOutputs)
    \/ Embed
    \/ Search(PipelineDocs)
    \/ AssembleStep \/ AssembleRaises
    \/ Compose
    \/ GenerateBranch35 \/ GenerateBranch4 \/ GenerateNoBranch
    \/ GenerateFinal
    \/ EmitMetadata

SpecLookup == Init /\ [][NextLookup]_vars

\* C27: the citation lookup of the metadata event has exactly the entries of
\* the documents retrieved in this run, under File0..File(n-1); no entry of
\* the mapping the caller passed appears in it, and the caller's mapping is as
\* it was passed.
C27_LookupScopedToRun ==
    /\ \A i \in Kinds("metadata") :
          LET cl == events[i].work_citation_lookup
          IN  /\ DOMAIN cl = { Moniker(k - 1) : k \in 1..Len(r) }
              /\ \A k \in 1..Len(r) : cl[Moniker(k - 1)] = CitationEntry(r[k])
              /\ \A m \in DOMAIN cl : cl[m] # StaleEntry
    /\ caller_citation_lookup = given.citation_lookup

\* metadata was emitted for two documents in a run that was passed a mapping
\* with entries of an earlier turn
C27_Witness ==
    /\ pc = "stream"
    /\ Has(given.citation_lookup, "File5")
    /\ Len(r) = 2
    /\ \E i \in Kinds("metadata") :
          /\ ~Has(events[i].work_citation_lookup, "File5")
          /\ events[i].work_citation_lookup["File0"].source_path = "a.pdf"

----------------------------------------------------------------------------
(* The thought chain of the caller *)

\* thought_chain arguments: none, and the mapping of an earlier turn sent back
EarlierThoughtChains ==
    { EmptyMap,
      [work_response |-> <<"earlier">>],
      [work_query |-> <<"earlier">>, work_search_term |-> <<"earlier">>] }

NextThoughts ==
    \/ Run(LookupHistories, LookupOverrides, NoCitationLookup, EarlierThoughtChains)
    \/ DetectLanguage \/ Translate
    \/ Reformulate(PipelineReformOutputs) \/ ReformulateNoContent \/ ReformulateFails
    \/ Embed

SpecThoughts == Init /\ [][NextThoughts]_vars

\* C28: every key of the thought chain the caller passed is still there with
\* the value it had; work_query is there once the run has started, and
\* work_search_term is only added after a successful reformulation.
C28_AppendOnly ==
    /\ \A k \in DOMAIN given.thought_chain :
          /\ Has(thought_chain, k)
          /\ thought_chain[k] = given.thought_chain[k]
    /\ pc # "idle" => Has(thought_chain, "work_query")
    /\ (Has(thought_chain, "work_search_term")
          /\ ~Has(given.thought_chain, "work_search_term"))
       => (/\ pc \in {"embed", "search", "done"}
           /\ failed # "reformulate"
           /\ CallsTo("chat") # {})

----------------------------------------------------------------------------
(* The messages of the final generation call *)

\* C29: whatever the configured model name, the messages of every streaming
\* generation call are the answer prompt (answer system message, response
\* few-shots, history, active turn with the sources), never the messages of
\* the query-reformulation call of the same run.
C29_AnswerPromptSent ==
    \A i \in StreamingCalls :
        LET m == calls[i].messages
        IN  /\ m[1] = [role |-> "system", content |-> system_message]
            /\ SubSeq(m, 2, 1 + Len(RESPONSE_PROMPT_FEW_SHOTS)) = RESPONSE_PROMPT_FEW_SHOTS
            /\ m[Len(m)] =
                  [role |-> "user",
                   content |-> LastUser \o <<"Sources:\n">> \o content \o <<"\n\n">>]
            /\ \A j \in CallsTo("chat") : ~calls[j].stream => m # calls[j].messages

----------------------------------------------------------------------------
(* log_streaming_response (app.py): chat wraps the generator of run; the     *)
(* StreamingResponse pulls the wrapper, the wrapper pulls run one line at a  *)
(* time. wpc is "none" for a run that is not wrapped, "start" for a wrapper  *)
(* whose body has not begun, "pulling" while it waits for the next line of   *)
(* run, "yielded" while it is suspended at its yield, then "finished",       *)
(* "raised", "closed" (closed after it began) or "dropped" (closed before    *)
(* it began).                                                                *)

WrapperOver == wpc \in {"finished", "raised", "closed", "dropped"}

\* logged_stream = log_streaming_response(r, ...): nothing of either
\* generator has run yet
Wrap ==
    /\ wpc = "none"
    /\ pc = "idle"
    /\ wpc' = "start"
    /\ UNCHANGED <<client, bot_log>>
    /\ UNCHANGED <<streams, log_level, cur, peer>>
    /\ UNCHANGED <<use_semantic_reranker, chunks, caller_vars>>
    /\ UNCHANGED <<model_name, pc, history, overrides, thought_chain,
                   user_question, messages, reform_content, generated_query, r,
                   idx, results, citation_lookup, content, system_message,
                   pulled, events, calls, failed>>

\* the first pull: the body begins, enters the try block and asks run for
\* its first line
WrapperStart ==
    /\ wpc = "start"
    /\ wpc' = "pulling"
    /\ UNCHANGED <<client, bot_log>>
    /\ UNCHANGED <<streams, log_level, cur, peer>>
    /\ UNCHANGED <<use_semantic_reranker, chunks, caller_vars>>
    /\ UNCHANGED <<model_name, pc, history, overrides, thought_chain,
                   user_question, messages, reform_content, generated_query, r,
                   idx, results, citation_lookup, content, system_message,
                   pulled, events, calls, failed>>

\* WrapperYield handing on a line with null content as one with empty content
WrapperYieldFillsNull ==
    /\ wpc = "pulling"
    /\ Len(client) < Len(events)
    /\ client' = Append(client,
          IF events[Len(client) + 1] = ContentEvent([null |-> TRUE])
          THEN ContentEvent([text |-> <<>>])
          ELSE events[Len(client) + 1])
    /\ wpc' = "yielded"
    /\ UNCHANGED bot_log
    /\ UNCHANGED <<streams, log_level, cur, peer>>
    /\ UNCHANGED <<use_semantic_reranker, chunks, caller_vars>>
    /\ UNCHANGED <<model_name, pc, history, overrides, thought_chain,
                   user_question, messages, reform_content, generated_query, r,
                   idx, results, citation_lookup, content, system_message,
                   pulled, events, calls, failed>>

\* run has yielded a line: it is kept for the log and yielded as it is
WrapperYield ==
    /\ wpc = "pulling"
    /\ Len(client) < Len(events)
    /\ client' = Append(client, events[Len(client) + 1])
    /\ wpc' = "yielded"
    /\ UNCHANGED bot_log
    /\ UNCHANGED <<streams, log_level, cur, peer>>
    /\ UNCHANGED <<use_semantic_reranker, chunks, caller_vars>>
    /\ UNCHANGED <<model_name, pc, history, overrides, thought_chain,
                   user_question, messages, reform_content, generated_query, r,
                   idx, results, citation_lookup, content, system_message,
                   pulled, events, calls, failed>>

\* the StreamingResponse asks for the next line
ClientPull ==
    /\ wpc = "yielded"
    /\ wpc' = "pulling"
    /\ UNCHANGED <<client, bot_log>>
    /\ UNCHANGED <<streams, log_level, cur, peer>>
    /\ UNCHANGED <<use_semantic_reranker, chunks, caller_vars>>
    /\ UNCHANGED <<model_name, pc, history, overrides, thought_chain,
                   user_question, messages, reform_content, generated_query, r,
                   idx, results, citation_lookup, content, system_message,
                   pulled, events, calls, failed>>

\* run is exhausted: the loop ends, finally writes the log record
WrapperEnd ==
    /\ wpc = "pulling"
    /\ pc = "done"
    /\ Len(client) = Len(events)
    /\ bot_log' = bot_log + 1
    /\ wpc' = "finished"
    /\ UNCHANGED client
    /\ UNCHANGED <<streams, log_level, cur, peer>>
    /\ UNCHANGED <<use_semantic_reranker, chunks, caller_vars>>
    /\ UNCHANGED <<model_name, pc, history, overrides, thought_chain,
                   user_question, messages, reform_content, generated_query, r,
                   idx, results, citation_lookup, content, system_message,
                   pulled, events, calls, failed>>

\* run raises: the exception passes through finally, which writes the log
\* record, and goes on to the StreamingResponse
WrapperRaises ==
    /\ wpc = "pulling"
    /\ pc = "raised"
    /\ Len(client) = Len(events)
    /\ bot_log' = bot_log + 1
    /\ wpc' = "raised"
    /\ UNCHANGED client
    /\ UNCHANGED <<streams, log_level, cur, peer>>
    /\ UNCHANGED <<use_semantic_reranker, chunks, caller_vars>>
    /\ UNCHANGED <<model_name, pc, history, overrides, thought_chain,
                   user_question, messages, reform_content, generated_query, r,
                   idx, results, citation_lookup, content, system_message,
                   pulled, events, calls, failed>>

\* the client goes away after the body began: the wrapper is closed where it
\* is suspended, inside the try block, and finally writes the log record
ClientCloses ==
    /\ wpc \in {"pulling", "yielded"}
    /\ bot_log' = bot_log + 1
    /\ wpc' = "closed"
    /\ UNCHANGED client
    /\ UNCHANGED <<streams, log_level, cur, peer>>
    /\ UNCHANGED <<use_semantic_reranker, chunks, caller_vars>>
    /\ UNCHANGED <<model_name, pc, history, overrides, thought_chain,
                   user_question, messages, reform_content, generated_query, r,
                   idx, results, citation_lookup, content, system_message,
                   pulled, events, calls, failed>>

\* the client goes away before the first pull: closing a generator that has
\* not begun runs none of its body, so the try block is never entered
ClientClosesUnstarted ==
    /\ wpc = "start"
    /\ wpc' = "dropped"
    /\ UNCHANGED <<client, bot_log>>
    /\ UNCHANGED <<streams, log_level, cur, peer>>
    /\ UNCHANGED <<use_semantic_reranker, chunks, caller_vars>>
    /\ UNCHANGED <<model_name, pc, history, overrides, thought_chain,
                   user_question, messages, reform_content, generated_query, r,
                   idx, results, citation_lookup, content, system_message,
                   pulled, events, calls, failed>>

NextWrapper ==
    \/ Wrap \/ WrapperStart \/ WrapperYield \/ ClientPull
    \/ WrapperEnd \/ WrapperRaises \/ ClientCloses \/ ClientClosesUnstarted
    \/ Run(LookupHistories, LookupOverrides, NoCitationLookup, NoThoughtChain)
    \/ DetectLanguage \/ DetectLanguageFails
    \/ Translate
    \/ Reformulate(PipelineReformOutputs) \/ ReformulateFails
    \/ Embed
    \/ Search(PipelineDocs)
    \/ AssembleStep \/ AssembleRaises
    \/ Compose
    \/ GenerateBranch35 \/ GenerateBranch4 \/ GenerateNoBranch
    \/ GenerateFinal
    \/ EmitMetadata
    \/ StreamChunk \/ StreamEmptyChunk \/ StreamEnd \/ StreamFails

SpecWrapper == Init /\ [][NextWrapper]_vars

\* the client has been handed the lines of run so far, as they are, in order
Transparent ==
    /\ Len(client) <= Len(events)
    /\ client = SubSeq(events, 1, Len(client))
    /\ wpc = "finished" => (pc = "done" /\ client = events)
    /\ wpc = "raised" => (pc = "raised" /\ client = events)

\* C30 as stated: the wrapper hands on exactly the lines of run, unchanged and
\* in order, lines with null content included, and writes 'Bot response
\* complete' exactly once per request, whether the stream is exhausted,
\* raises or is closed early by the client.
C30_LoggedOncePerRequest ==
    wpc # "none" =>
        /\ Transparent
        /\ bot_log <= 1
        /\ WrapperOver => bot_log = 1

\* C30 amended: the wrapper hands on exactly the lines of run, unchanged and
\* in order, lines with null content included; it writes 'Bot response
\* complete' exactly once when its body has begun and the stream is
\* exhausted, raises or is closed by the client, never before that, and not
\* at all when the client closes it before the first pull.
C30_LoggedOnceIfBegun ==
    wpc # "none" =>
        /\ Transparent
        /\ wpc \in {"finished", "raised", "closed"} => bot_log = 1
        /\ wpc \in {"start", "pulling", "yielded"} => bot_log = 0
        /\ wpc = "dropped" => (bot_log = 0 /\ client = <<>> /\ pc = "idle")

\* the client went away after a line with null content was handed on
C30_Witness ==
    /\ wpc = "closed"
    /\ bot_log = 1
    /\ Len(client) = 2
    /\ client[1].kind = "metadata"
    /\ client[2] = ContentEvent([null |-> TRUE])
    /\ pc = "stream"

====
